---- MODULE Spec2Model ----
(***************************************************************************)
(* Model of the MCP-Chatbot backend: the tool registry (ToolManager), the  *)
(* chat orchestrator (OllamaChatClient) and the WebSocket handler.         *)
(***************************************************************************)
EXTENDS Integers, Sequences, FiniteSets, TLC

VARIABLES
    dir_exists,     \* the tools directory exists and is a directory
    fs,             \* file stem -> content of <stem>.py in the tools directory
    loaded_tools,   \* ToolManager.loaded_tools, a dict in insertion order
    sd,             \* the shutdown_all coroutine: where it is suspended
    last,           \* the last completed registry operation and its outcome
    prev_op,        \* the registry operation completed before `last`
    load_called,    \* load_all_tools has been called at least once
    client,         \* ollama_bot.client: None, an open or a closed httpx client
    turn,           \* the last call of ollama_bot.chat and what it did
    chat_history,   \* connection -> the chat_history list of its handler
    conn,           \* connection -> its handler is in the receive loop or has left
    ws,             \* the last inbound WebSocket message and the replies sent
    scan,           \* the last module given to _find_tool_functions and its result
    inflight        \* connection -> the execute_tool call its handler is inside

regVars == <<dir_exists, fs, loaded_tools, sd, last, prev_op, load_called>>
chatVars == <<client, turn, chat_history, conn, ws>>
vars == <<regVars, chatVars, scan, inflight>>

-----------------------------------------------------------------------------
(* Sequence helpers *)

Range(s) == {s[i] : i \in 1..Len(s)}

RECURSIVE SeqOfSet(_)
SeqOfSet(S) ==
    IF S = {} THEN <<>>
    ELSE LET x == CHOOSE y \in S : TRUE IN <<x>> \o SeqOfSet(S \ {x})

Perms(S) ==
    {p \in [1..Cardinality(S) -> S] : \A i, j \in 1..Cardinality(S) : p[i] = p[j] => i = j}

-----------------------------------------------------------------------------
(* Function names as character sequences: 'tool' in name.lower() and the   *)
(* keyword tests of _find_tool_functions are computed on the characters.   *)

Chars(name) ==
    CASE name = "get_current_weather" ->
            <<"g","e","t","_","c","u","r","r","e","n","t","_","w","e","a","t","h","e","r">>
      [] name = "will_it_rain" -> <<"w","i","l","l","_","i","t","_","r","a","i","n">>
      [] name = "search_locations" ->
            <<"s","e","a","r","c","h","_","l","o","c","a","t","i","o","n","s">>
      [] name = "simple_greeting" ->
            <<"s","i","m","p","l","e","_","g","r","e","e","t","i","n","g">>
      [] name = "main" -> <<"m","a","i","n">>
      [] name = "_helper" -> <<"_","h","e","l","p","e","r">>
      [] name = "cleanup" -> <<"c","l","e","a","n","u","p">>
      [] name = "lookup" -> <<"l","o","o","k","u","p">>
      [] name = "Run_Tool" -> <<"R","u","n","_","T","o","o","l">>
      [] name = "_private" -> <<"_","p","r","i","v","a","t","e">>
      [] name = "run" -> <<"r","u","n">>
      [] name = "setup" -> <<"s","e","t","u","p">>
      [] OTHER -> <<>>

LowerChar(c) ==
    CASE c = "R" -> "r"
      [] c = "T" -> "t"
      [] OTHER -> c

Lower(cs) == [i \in 1..Len(cs) |-> LowerChar(cs[i])]

\* needle in hay (Python's substring test)
Contains(hay, needle) ==
    \E i \in 0..(Len(hay) - Len(needle)) :
        \A j \in 1..Len(needle) : hay[i + j] = needle[j]

StartsWith(cs, c) == Len(cs) >= 1 /\ cs[1] = c

ToolWord == <<"t","o","o","l">>

Keywords ==
    { <<"w","e","a","t","h","e","r">>,
      <<"t","e","m","p","e","r","a","t","u","r","e">>,
      <<"r","a","i","n">>,
      <<"f","o","r","e","c","a","s","t">>,
      <<"s","u","n","n","y">>,
      <<"a","i","r","_","q","u","a","l","i","t","y">>,
      <<"s","u","n","r","i","s","e">>,
      <<"s","u","n","s","e","t">> }

ReservedNames == {"main", "run", "start", "stop", "init", "setup"}

-----------------------------------------------------------------------------
(* The tools directory the model explores: four source files.              *)

Fn(name, params, defaults, varkw, isAsync, tagged) ==
    [name |-> name, params |-> params, defaults |-> defaults, varkw |-> varkw,
     isAsync |-> isAsync, tagged |-> tagged]

\* weather.py: asynchronous functions, one of them with a default value
WeatherModule ==
    { Fn("get_current_weather", <<"location">>, {}, FALSE, TRUE, FALSE),
      Fn("will_it_rain", <<"location", "days">>, {"days"}, FALSE, TRUE, FALSE),
      Fn("search_locations", <<"query">>, {}, FALSE, TRUE, FALSE) }

\* a module of plain public functions with a synchronous cleanup hook
CalcModule ==
    { Fn("simple_greeting", <<"name">>, {}, FALSE, FALSE, FALSE),
      Fn("main", <<>>, {}, FALSE, FALSE, FALSE),
      Fn("_helper", <<>>, {}, FALSE, FALSE, FALSE),
      Fn("cleanup", <<>>, {}, FALSE, FALSE, FALSE) }

\* a module with a marked entry point and an asynchronous cleanup hook
DemoModule ==
    { Fn("lookup", <<"location">>, {}, TRUE, FALSE, TRUE),
      Fn("Run_Tool", <<>>, {}, FALSE, FALSE, FALSE),
      Fn("cleanup", <<>>, {}, FALSE, TRUE, FALSE) }

\* a module in which no discovery rule selects anything
ScratchModule ==
    { Fn("main", <<>>, {}, FALSE, FALSE, FALSE),
      Fn("_private", <<>>, {}, FALSE, FALSE, FALSE) }

\* calc.py after an edit: another function set and no cleanup hook
CalcModuleEdited ==
    { Fn("simple_greeting", <<"name">>, {}, FALSE, FALSE, FALSE),
      Fn("lookup", <<"location">>, {}, FALSE, FALSE, FALSE),
      Fn("main", <<>>, {}, FALSE, FALSE, FALSE) }

Files == {"weather", "calc", "mcp_demo", "scratch"}

\* the module objects: one per file, and one more for the edited calc.py
ModuleIds == Files \cup {"calc_edited"}

\* the module object that executing <stem>.py with this content gives; a
\* file cut down to a main and a private helper has the members of scratch.py
ModuleId(stem, content) ==
    CASE content = "module_edited" -> "calc_edited"
      [] content = "module_bare" -> "scratch"
      [] OTHER -> stem

ModuleOf(stem) ==
    CASE stem = "weather" -> WeatherModule
      [] stem = "calc" -> CalcModule
      [] stem = "calc_edited" -> CalcModuleEdited
      [] stem = "mcp_demo" -> DemoModule
      [] OTHER -> ScratchModule

\* what <stem>.py may hold: no such file, a blank file, a file whose import
\* raises ImportError, a file whose top-level code raises another error, a
\* file that does not compile, or its module
Contents(stem) ==
    CASE stem = "weather" -> {"module", "import_error", "runtime_error"}
      [] stem = "calc" -> {"module", "empty"}
      [] stem = "mcp_demo" -> {"module", "syntax_error", "absent"}
      [] OTHER -> {"module"}

NoFiles == [f \in Files |-> "absent"]

Directories ==
    {d \in [Files -> {"module", "import_error", "runtime_error", "syntax_error", "empty",
                      "absent"}] :
        \A f \in Files : d[f] \in Contents(f)} \cup {NoFiles}

-----------------------------------------------------------------------------
(* ToolManager._find_tool_functions: four strategies, each tried only when  *)
(* the ones before it selected nothing.                                     *)

Strategy1(module) == {f \in module : f.tagged}
Strategy2(module) == {f \in module : Contains(Lower(Chars(f.name)), ToolWord)}
Strategy3(module) ==
    {f \in module : \E k \in Keywords : Contains(Lower(Chars(f.name)), k)}
Strategy4(module) ==
    {f \in module : ~StartsWith(Chars(f.name), "_") /\ f.name \notin ReservedNames}

\* discovery that adds up the four strategies
FindToolFunctions_AllRules(module) ==
    {f.name : f \in Strategy1(module) \cup Strategy2(module) \cup Strategy3(module)
                    \cup Strategy4(module)}

FindToolFunctions(module) ==
    LET picked ==
            IF Strategy1(module) # {} THEN Strategy1(module)
            ELSE IF Strategy2(module) # {} THEN Strategy2(module)
            ELSE IF Strategy3(module) # {} THEN Strategy3(module)
            ELSE Strategy4(module)
    IN  {f.name : f \in picked}

\* the result of discovery on each file's module (what the file defines is
\* fixed, so it is computed once per file)
Discovered[stem \in ModuleIds] == FindToolFunctions(ModuleOf(stem))

\* the function object a module binds to a name
FunctionObject(stem, name) == CHOOSE f \in ModuleOf(stem) : f.name = name

\* the most functions a module given to discovery defines
MaxFunctions == 3

\* the functions such a module may define: any of the names, marked with
\* _mcp_tool or not
Names ==
    {"get_current_weather", "will_it_rain", "search_locations", "simple_greeting", "main",
     "_helper", "cleanup", "lookup", "Run_Tool", "_private", "run", "setup"}

Functions ==
    {Fn(name, <<>>, {}, FALSE, FALSE, FALSE) : name \in Names}
    \cup {Fn(name, <<>>, {}, FALSE, FALSE, TRUE) : name \in {"lookup", "main", "_helper"}}

\* a module binds a name to one function
ModulesUpTo[n \in {MaxFunctions}] ==
    {m \in SUBSET Functions :
        /\ Cardinality(m) <= n
        /\ \A f, g \in m : f.name = g.name => f = g}

Modules == ModulesUpTo[MaxFunctions]

NoScan == [op |-> "none", module |-> {}, found |-> {}]

\* tool_functions = self._find_tool_functions(module), one call
Discover ==
    /\ scan.op = "none"
    /\ \E module \in Modules :
          scan' = [op |-> "find", module |-> module, found |-> FindToolFunctions(module)]
    /\ UNCHANGED <<regVars, chatVars, inflight>>

-----------------------------------------------------------------------------
(* loaded_tools as an insertion-ordered dict: a sequence of entries with    *)
(* distinct tool_name. An entry refers to its module object by the file it  *)
(* was executed from; "functions" and "function_objects" hold the keys of   *)
(* the two dicts, whose values are that module's function objects.          *)

Keys(loaded) == {loaded[i].tool_name : i \in 1..Len(loaded)}

\* list(loaded_tools.keys())
KeyNames(loaded) == [i \in 1..Len(loaded) |-> loaded[i].tool_name]

Entry(loaded, tool_name) ==
    loaded[CHOOSE i \in 1..Len(loaded) : loaded[i].tool_name = tool_name]

\* a registry that appends on every load, also for a key it holds
DictSet_AlwaysAppend(loaded, entry) == Append(loaded, entry)

\* loaded_tools[tool_name] = entry: a new key goes last, an old key keeps its place
DictSet(loaded, entry) ==
    IF entry.tool_name \in Keys(loaded)
    THEN [i \in 1..Len(loaded) |->
            IF loaded[i].tool_name = entry.tool_name THEN entry ELSE loaded[i]]
    ELSE Append(loaded, entry)

\* _load_single_tool without the test for an empty discovery result
LoadSingleTool_KeepEmpty(loaded, stem, content) ==
    IF content # "module" THEN loaded
    ELSE DictSet(loaded,
            [tool_name |-> stem,
             module |-> stem,
             functions |-> Discovered[stem],
             function_objects |-> {name : name \in Discovered[stem]}])

\* _load_single_tool that keeps callable handles for coroutine functions only
LoadSingleTool_AsyncHandles(loaded, stem, content) ==
    IF content # "module" THEN loaded
    ELSE IF Discovered[stem] = {} THEN loaded
    ELSE DictSet(loaded,
            [tool_name |-> stem,
             module |-> stem,
             functions |-> Discovered[stem],
             function_objects |->
                 {name \in Discovered[stem] : FunctionObject(stem, name).isAsync}])

\* _load_single_tool that drops the entry of a file that does not load
LoadSingleTool_DropOnFailure(loaded, stem, content) ==
    LET without == SelectSeq(loaded, LAMBDA e : e.tool_name # stem)
    IN
    IF content \notin {"module", "module_edited", "module_bare"} THEN without
    ELSE IF Discovered[ModuleId(stem, content)] = {} THEN without
    ELSE DictSet(loaded,
            [tool_name |-> stem,
             module |-> ModuleId(stem, content),
             functions |-> Discovered[ModuleId(stem, content)],
             function_objects |-> {name : name \in Discovered[ModuleId(stem, content)]}])

\* ToolManager._load_single_tool: every failure returns with the registry as it was
LoadSingleTool(loaded, stem, content) ==
    IF content \notin {"module", "module_edited", "module_bare"} THEN loaded
    ELSE LET tool_functions == Discovered[ModuleId(stem, content)]
         IN  IF tool_functions = {} THEN loaded
             ELSE DictSet(loaded,
                    [tool_name |-> stem,
                     module |-> ModuleId(stem, content),
                     functions |-> tool_functions,
                     function_objects |-> {name : name \in tool_functions}])

\* the loop with the try/except around it: the first file that does not
\* load ends the batch
RECURSIVE LoadEach_AbortOnFailure(_, _, _)
LoadEach_AbortOnFailure(loaded, tool_files, files) ==
    IF tool_files = <<>> THEN loaded
    ELSE IF LoadSingleTool(loaded, Head(tool_files), files[Head(tool_files)]) = loaded
            /\ Head(tool_files) \notin Keys(loaded)
    THEN loaded
    ELSE LoadEach_AbortOnFailure(
            LoadSingleTool(loaded, Head(tool_files), files[Head(tool_files)]),
            Tail(tool_files), files)

\* for tool_file in tool_files: await self._load_single_tool(tool_file)
RECURSIVE LoadEach(_, _, _)
LoadEach(loaded, tool_files, files) ==
    IF tool_files = <<>> THEN loaded
    ELSE LoadEach(LoadSingleTool(loaded, Head(tool_files), files[Head(tool_files)]),
                  Tail(tool_files), files)

\* the .py files iterdir() yields
ToolFiles(files) == {f \in DOMAIN files : files[f] # "absent"}

NoOutcome ==
    [kind |-> "none", exc |-> "", msg |-> "", value |-> "",
     expected |-> <<>>, received |-> {}, started |-> FALSE]

NoCall ==
    [op |-> "none", tool |-> "", fn |-> "", keys |-> {}, body |-> "",
     out |-> NoOutcome, before |-> <<>>, hooks |-> <<>>, raised |-> FALSE]

\* ToolManager.load_all_tools
LoadAllTools ==
    /\ sd.pc = "idle"
    /\ \E order \in Perms(ToolFiles(fs)) :
          loaded_tools' =
              IF ~dir_exists \/ ToolFiles(fs) = {} THEN loaded_tools
              ELSE LoadEach(loaded_tools, order, fs)
    /\ last' = [NoCall EXCEPT !.op = "load_all_tools",
                              !.before = KeyNames(loaded_tools)]
    /\ prev_op' = last.op
    /\ load_called' = TRUE
    /\ UNCHANGED <<dir_exists, fs, sd>>

\* what an edit may leave in a file of the tools directory
EditedContents(stem) ==
    CASE stem = "weather" -> {"module", "import_error", "runtime_error", "absent"}
      [] stem = "calc" -> {"module", "module_edited", "module_bare", "empty"}
      [] OTHER -> {}

\* somebody rewrites or deletes <stem>.py between two load_all_tools calls
EditFile ==
    /\ dir_exists
    /\ sd.pc = "idle"
    /\ \E stem \in {"weather", "calc"} : \E content \in EditedContents(stem) :
          /\ content # fs[stem]
          /\ fs' = [fs EXCEPT ![stem] = content]
          /\ last' = [NoCall EXCEPT !.op = "write_file", !.tool = stem]
    /\ prev_op' = last.op
    /\ UNCHANGED <<dir_exists, loaded_tools, sd, load_called>>

-----------------------------------------------------------------------------
(* ToolManager.execute_tool *)

\* the names inspect.signature(function).parameters lists
SignatureParameters(f) == f.params \o (IF f.varkw THEN <<"kwargs">> ELSE <<>>)

\* BindFails without the test for keys that name no parameter
BindFails_MissingOnly(f, keys) ==
    \E p \in Range(f.params) : p \notin f.defaults /\ p \notin keys

\* function(**parameters): Python's argument binding raises TypeError before
\* the body starts when a parameter without default gets no value or a key
\* names no parameter (and no **kwargs takes it)
BindFails(f, keys) ==
    \/ \E p \in Range(f.params) : p \notin f.defaults /\ p \notin keys
    \/ ~f.varkw /\ \E k \in keys : k \notin Range(f.params)

\* what the body of a tool function may do once started
BodyOutcomes == {"return", "TypeError", "ValueError", "RuntimeError"}

Raised(exc, msg, expected, received, started) ==
    [kind |-> "raise", exc |-> exc, msg |-> msg, value |-> "",
     expected |-> expected, received |-> received, started |-> started]

Returned(value) ==
    [kind |-> "return", exc |-> "", msg |-> "", value |-> value,
     expected |-> <<>>, received |-> {}, started |-> TRUE]

\* raise ValueError(f"Outil '{tool_name}' non trouve. ...")
UnknownTool == Raised("ValueError", "Outil non trouve", <<>>, {}, FALSE)

\* raise ValueError(f"Fonction '{function_name}' non trouvee dans l'outil ...")
UnknownFunction == Raised("ValueError", "Fonction non trouvee", <<>>, {}, FALSE)

\* except TypeError: raise ValueError(f"Parametres incorrects pour ... Attendu: ..., recu: ...")
ParametersIncorrect(f, keys, started) ==
    Raised("ValueError", "Parametres incorrects", SignatureParameters(f), keys, started)

\* the try block: the call, then the two except clauses
CallFunction(f, keys, body) ==
    IF BindFails(f, keys) THEN ParametersIncorrect(f, keys, FALSE)
    ELSE IF body = "TypeError" THEN ParametersIncorrect(f, keys, TRUE)
    ELSE IF body = "return" THEN Returned("result")
    ELSE Raised(body, "body message", <<>>, {}, TRUE)

\* ExecuteTool with an absent tool reported by the function lookup's error
ExecuteTool_OneLookupError(loaded, tool_name, function_name, keys, body) ==
    IF tool_name \notin Keys(loaded) THEN UnknownFunction
    ELSE IF function_name \notin Entry(loaded, tool_name).function_objects
         THEN UnknownFunction
    ELSE CallFunction(FunctionObject(Entry(loaded, tool_name).module, function_name),
                      keys, body)

ExecuteTool(loaded, tool_name, function_name, keys, body) ==
    IF tool_name \notin Keys(loaded) THEN UnknownTool
    ELSE IF function_name \notin Entry(loaded, tool_name).function_objects
         THEN UnknownFunction
    ELSE CallFunction(FunctionObject(Entry(loaded, tool_name).module, function_name),
                      keys, body)

\* the callable is reached and its parameters bind: its body starts
Starts(loaded, tool_name, function_name, keys) ==
    /\ tool_name \in Keys(loaded)
    /\ function_name \in Entry(loaded, tool_name).function_objects
    /\ ~BindFails(FunctionObject(Entry(loaded, tool_name).module, function_name), keys)

\* the requests the model explores
ToolArgs == {"weather", "mcp_demo", "ghost"}
FunctionArgs == {"will_it_rain", "lookup", "search_locations"}
ParamKeys == {"location", "days", "name"}

Called(tool_name, function_name, keys, body, o) ==
    /\ last' = [op |-> "execute_tool", tool |-> tool_name, fn |-> function_name,
                keys |-> keys, body |-> body, out |-> o,
                before |-> KeyNames(loaded_tools), hooks |-> <<>>, raised |-> FALSE]
    /\ prev_op' = last.op
    /\ UNCHANGED <<dir_exists, fs, loaded_tools, sd, load_called>>

\* a caller awaits execute_tool(tool_name, function_name, parameters)
ExecuteToolCall ==
    \E tool_name \in ToolArgs, function_name \in FunctionArgs, keys \in SUBSET ParamKeys :
        \/ /\ ~Starts(loaded_tools, tool_name, function_name, keys)
           /\ Called(tool_name, function_name, keys, "",
                     ExecuteTool(loaded_tools, tool_name, function_name, keys, ""))
        \/ /\ Starts(loaded_tools, tool_name, function_name, keys)
           /\ \E body \in BodyOutcomes :
                Called(tool_name, function_name, keys, body,
                       ExecuteTool(loaded_tools, tool_name, function_name, keys, body))

-----------------------------------------------------------------------------
(* ToolManager.shutdown_all: a sweep over loaded_tools.items() that is     *)
(* suspended at each asynchronous cleanup hook, then loaded_tools.clear()  *)

\* hasattr(module, 'cleanup')
HasCleanup(module) == \E f \in ModuleOf(module) : f.name = "cleanup"

Visit(tool_name, hook, result) == [tool |-> tool_name, hook |-> hook, result |-> result]

\* Sweep with the try/except around the loop instead of inside it: the first
\* failing synchronous hook ends the sweep
RECURSIVE Sweep_StopAtFailure(_, _, _, _)
Sweep_StopAtFailure(loaded, i, hooks, sync) ==
    IF i > Len(loaded) THEN [idx |-> i, hooks |-> hooks]
    ELSE LET e == loaded[i] IN
         IF ~HasCleanup(e.module)
         THEN Sweep_StopAtFailure(loaded, i + 1,
                                  Append(hooks, Visit(e.tool_name, "none", "ok")), sync)
         ELSE IF FunctionObject(e.module, "cleanup").isAsync
         THEN [idx |-> i, hooks |-> hooks]
         ELSE IF sync[e.tool_name] = "raised"
         THEN [idx |-> Len(loaded) + 1,
               hooks |-> Append(hooks, Visit(e.tool_name, "sync", "raised"))]
         ELSE Sweep_StopAtFailure(loaded, i + 1,
                                  Append(hooks, Visit(e.tool_name, "sync", "ok")), sync)

\* the for loop from position i, up to the first asynchronous hook (where it
\* awaits) or the end; sync[t] says whether t's synchronous hook raises
RECURSIVE Sweep(_, _, _, _)
Sweep(loaded, i, hooks, sync) ==
    IF i > Len(loaded) THEN [idx |-> i, hooks |-> hooks]
    ELSE LET e == loaded[i] IN
         IF ~HasCleanup(e.module)
         THEN Sweep(loaded, i + 1, Append(hooks, Visit(e.tool_name, "none", "ok")), sync)
         ELSE IF FunctionObject(e.module, "cleanup").isAsync
         THEN [idx |-> i, hooks |-> hooks]
         ELSE Sweep(loaded, i + 1,
                    Append(hooks, Visit(e.tool_name, "sync", sync[e.tool_name])), sync)

HookResults == {"ok", "raised"}

Idle == [pc |-> "idle", idx |-> 0, hooks |-> <<>>, before |-> <<>>]

\* Finish without loaded_tools.clear()
Finish_NoClear(hooks, before) ==
    /\ loaded_tools' = loaded_tools
    /\ sd' = [pc |-> "idle", idx |-> 0, hooks |-> <<>>, before |-> <<>>]
    /\ last' = [NoCall EXCEPT !.op = "shutdown_all", !.before = before, !.hooks = hooks]
    /\ prev_op' = last.op

\* the sweep went through: clear the registry and return
Finish(hooks, before) ==
    /\ loaded_tools' = <<>>
    /\ sd' = Idle
    /\ last' = [NoCall EXCEPT !.op = "shutdown_all", !.before = before, !.hooks = hooks]
    /\ prev_op' = last.op

\* the sweep awaits the asynchronous hook of the module at idx
Suspend(idx, hooks, before) ==
    /\ sd' = [pc |-> "awaiting", idx |-> idx, hooks |-> hooks, before |-> before]
    /\ UNCHANGED <<loaded_tools, last, prev_op>>

ShutdownAll ==
    /\ sd.pc = "idle"
    /\ \E sync \in [Files -> HookResults] :
          LET r == Sweep(loaded_tools, 1, <<>>, sync)
          IN  IF r.idx > Len(loaded_tools)
              THEN Finish(r.hooks, KeyNames(loaded_tools))
              ELSE Suspend(r.idx, r.hooks, KeyNames(loaded_tools))
    /\ UNCHANGED <<dir_exists, fs, load_called>>

\* the awaited hook returns or raises, and the sweep goes on
ShutdownResume ==
    /\ sd.pc = "awaiting"
    /\ \E result \in HookResults, sync \in [Files -> HookResults] :
          LET done == Append(sd.hooks, Visit(loaded_tools[sd.idx].tool_name, "async", result))
              r == Sweep(loaded_tools, sd.idx + 1, done, sync)
          IN  IF r.idx > Len(loaded_tools)
              THEN Finish(r.hooks, sd.before)
              ELSE Suspend(r.idx, r.hooks, sd.before)
    /\ UNCHANGED <<dir_exists, fs, load_called>>

-----------------------------------------------------------------------------
(* ToolManager.get_all_tools *)

\* tool name -> list of function names, in dict order
GetAllTools(loaded) ==
    [i \in 1..Len(loaded) |->
        [tool |-> loaded[i].tool_name, functions |-> SeqOfSet(loaded[i].functions)]]

\* ToolManager.is_ready
IsReady(loaded) == Len(loaded) > 0

\* get_tool_info that describes the coroutine functions only
GetToolInfo_AsyncOnly(loaded, tool_name) ==
    IF tool_name \notin Keys(loaded)
    THEN [keys |-> {}, functions |-> <<>>, functions_info |-> <<>>]
    ELSE LET tool_info == Entry(loaded, tool_name)
             described == {n \in tool_info.function_objects :
                              FunctionObject(tool_info.module, n).isAsync}
         IN  [keys |-> {"functions", "functions_info"},
              functions |-> SeqOfSet(tool_info.functions),
              functions_info |->
                  [func_name \in described |->
                      LET func == FunctionObject(tool_info.module, func_name)
                      IN  [parameters |-> SignatureParameters(func),
                           is_async |-> func.isAsync]]]

\* ToolManager.get_tool_info: {} for an unknown tool, else the dict with the
\* keys "functions" and "functions_info"
GetToolInfo(loaded, tool_name) ==
    IF tool_name \notin Keys(loaded)
    THEN [keys |-> {}, functions |-> <<>>, functions_info |-> <<>>]
    ELSE LET tool_info == Entry(loaded, tool_name)
         IN  [keys |-> {"functions", "functions_info"},
              functions |-> SeqOfSet(tool_info.functions),
              functions_info |->
                  [func_name \in tool_info.function_objects |->
                      LET func == FunctionObject(tool_info.module, func_name)
                      IN  [parameters |-> SignatureParameters(func),
                           is_async |-> func.isAsync]]]

\* sum(len(tool["functions"]) for tool in loaded_tools.values())
RECURSIVE TotalFunctions(_)
TotalFunctions(loaded) ==
    IF loaded = <<>> THEN 0
    ELSE Cardinality(Head(loaded).functions) + TotalFunctions(Tail(loaded))

\* ToolManager.get_stats
GetStats(loaded) ==
    [tools_loaded |-> Len(loaded),
     total_functions |-> TotalFunctions(loaded),
     tool_names |-> KeyNames(loaded)]

\* main.get_tool_details (GET /tools/{tool_name}): 404 when get_tool_info
\* returns {}, else the response is built from tool_info["tools"] and
\* tool_info["name"]
GetToolDetails(loaded, tool_name) ==
    LET tool_info == GetToolInfo(loaded, tool_name)
    IN  IF tool_info.keys = {}
        THEN Raised("HTTPException", "404 Tool not found", <<>>, {}, FALSE)
        ELSE IF "tools" \notin tool_info.keys
        THEN Raised("KeyError", "'tools'", <<>>, {}, FALSE)
        ELSE IF "name" \notin tool_info.keys
        THEN Raised("KeyError", "'name'", <<>>, {}, FALSE)
        ELSE Returned("details")

\* a client requests GET /tools/{tool_name}
DescribeTool ==
    /\ \E tool_name \in ToolArgs :
          last' = [NoCall EXCEPT !.op = "get_tool_details", !.tool = tool_name,
                                 !.out = GetToolDetails(loaded_tools, tool_name),
                                 !.before = KeyNames(loaded_tools)]
    /\ prev_op' = last.op
    /\ UNCHANGED <<dir_exists, fs, loaded_tools, sd, load_called>>

\* the methods class ToolManager defines
Methods ==
    {"load_all_tools", "_load_single_tool", "_find_tool_functions", "get_all_tools",
     "execute_tool", "get_tool_info", "shutdown_all", "is_ready", "get_stats"}

\* tool_manager.<name>(tool_name): attribute lookup comes first
CallMethod(name) ==
    IF name \in Methods THEN Returned("bound method")
    ELSE Raised("AttributeError", "'ToolManager' object has no attribute", <<>>, {}, FALSE)

\* a caller asks the registry to reload one tool by name
ReloadCall ==
    /\ \E tool_name \in ToolArgs :
          last' = [NoCall EXCEPT !.op = "reload", !.tool = tool_name,
                                 !.out = CallMethod("reload"),
                                 !.before = KeyNames(loaded_tools)]
    /\ prev_op' = last.op
    /\ UNCHANGED <<dir_exists, fs, loaded_tools, sd, load_called>>

-----------------------------------------------------------------------------
(* OllamaChatClient. A text is a sequence of tokens (strings); a message   *)
(* is a role and a text.                                                    *)

Message(role, content) == [role |-> role, content |-> content]

StartTag == "<tool_call>"
EndTag == "</tool_call>"

\* JSON documents a response may hold between the tags
DocRain == "{tool: weather, function: will_it_rain, parameters: {location: Paris}}"
DocGhost == "{tool: ghost, function: lookup, parameters: {location: Paris}}"
DocNoParams == "{tool: weather, function: will_it_rain}"
DocNoFunction == "{tool: weather}"
DocArray == "[1, 2]"
DocBroken == "{tool: weather, function"

Parsed(isdict, has, tool, function, keys) ==
    [valid |-> TRUE, isdict |-> isdict, has |-> has, tool |-> tool,
     function |-> function, keys |-> keys]

NotJson == [valid |-> FALSE, isdict |-> FALSE, has |-> {}, tool |-> "",
            function |-> "", keys |-> {}]

\* json.loads of one token
ParseDoc(tok) ==
    CASE tok = DocRain ->
            Parsed(TRUE, {"tool", "function", "parameters"}, "weather", "will_it_rain",
                   {"location"})
      [] tok = DocGhost ->
            Parsed(TRUE, {"tool", "function", "parameters"}, "ghost", "lookup", {"location"})
      [] tok = DocNoParams -> Parsed(TRUE, {"tool", "function"}, "weather", "will_it_rain", {})
      [] tok = DocNoFunction -> Parsed(TRUE, {"tool"}, "weather", "", {})
      [] tok = DocArray -> Parsed(FALSE, {}, "", "", {})
      [] OTHER -> NotJson

IsSpace(tok) == tok \in {" ", "\n"}

\* str.strip()
RECURSIVE Strip(_)
Strip(text) ==
    IF text = <<>> THEN text
    ELSE IF IsSpace(Head(text)) THEN Strip(Tail(text))
    ELSE IF IsSpace(text[Len(text)]) THEN Strip(SubSeq(text, 1, Len(text) - 1))
    ELSE text

\* json.loads(match.strip()): a document, or JSONDecodeError
JsonLoads(text) ==
    IF Len(Strip(text)) = 1 THEN ParseDoc(Strip(text)[1]) ELSE NotJson

\* the first position >= i of tok in text, 0 when there is none
RECURSIVE Find(_, _, _)
Find(text, tok, i) ==
    IF i > Len(text) THEN 0
    ELSE IF text[i] = tok THEN i
    ELSE Find(text, tok, i + 1)

\* re.findall(r'<tool_call>(.*?)</tool_call>', response, re.DOTALL) from position i
RECURSIVE FindAll(_, _)
FindAll(text, i) ==
    LET a == Find(text, StartTag, i)
        b == IF a = 0 THEN 0 ELSE Find(text, EndTag, a + 1)
    IN  IF a = 0 \/ b = 0 THEN <<>>
        ELSE <<SubSeq(text, a + 1, b - 1)>> \o FindAll(text, b + 1)

\* OllamaChatClient._has_tool_call
HasToolCall(response) == StartTag \in Range(response) /\ EndTag \in Range(response)

\* extraction that looks at the first match only
RECURSIVE KeepParsed_FirstOnly(_)
KeepParsed_FirstOnly(matches) ==
    IF matches = <<>> \/ ~JsonLoads(Head(matches)).valid THEN <<>>
    ELSE <<JsonLoads(Head(matches))>>

\* OllamaChatClient._extract_tool_calls: the matches that parse, in order
RECURSIVE KeepParsed(_)
KeepParsed(matches) ==
    IF matches = <<>> THEN <<>>
    ELSE IF JsonLoads(Head(matches)).valid
         THEN <<JsonLoads(Head(matches))>> \o KeepParsed(Tail(matches))
         ELSE KeepParsed(Tail(matches))

ExtractToolCalls(response) == KeepParsed(FindAll(response, 1))

\* "- {tool_name}: {', '.join(functions)}\n" for each tool
RECURSIVE ToolsDescription(_)
ToolsDescription(tools) ==
    IF tools = <<>> THEN <<>>
    ELSE <<"- ", Head(tools).tool, ": ">> \o Head(tools).functions \o <<"\n">>
         \o ToolsDescription(Tail(tools))

\* OllamaChatClient._create_system_prompt
CreateSystemPrompt(tools) ==
    Message("system",
            <<"Tu es un assistant intelligent qui peut utiliser des outils.",
              "Outils disponibles:\n">> \o ToolsDescription(tools)
            \o <<"Pour utiliser un outil, ecris exactement:", StartTag, "\n",
                 "{tool: nom_outil, function: fonction, parameters: {param: valeur}}",
                 "\n", EndTag>>)

\* what the backend does with a request: a response text, or a failure
HttpErrors == {"timeout", "connection refused", "status 500"}
OtherErrors == {"malformed body"}

Answer(text) == [ok |-> TRUE, text |-> text, fail |-> ""]
Failure(kind) == [ok |-> FALSE, text |-> <<>>, fail |-> kind]

\* OllamaChatClient._call_ollama: every exception becomes a text
CallOllama(cl, outcome) ==
    IF cl = "closed"
    THEN <<"Erreur lors de l'appel a Ollama: ", "client has been closed">>
    ELSE IF outcome.ok THEN outcome.text
    ELSE IF outcome.fail \in HttpErrors
         THEN <<"Erreur de connexion avec Ollama: ", outcome.fail>>
    ELSE <<"Erreur lors de l'appel a Ollama: ", outcome.fail>>

ModelCall(sent, cl, outcome) ==
    [sent |-> sent, client |-> cl, failed |-> (cl = "closed" \/ ~outcome.ok),
     text |-> CallOllama(cl, outcome)]

Done(reply, messages, calls, invokes) ==
    [reply |-> reply, messages |-> messages, calls |-> calls, invokes |-> invokes]

Sorry(what) == <<"Desole, il y a eu une erreur avec l'outil: ", what>>

\* a _handle_tool_call that reports a failed tool to the model and asks it
\* for the final text
HandleToolCall_SummariseError(messages, listed, response, call1, cl, loaded, body, outcome2) ==
    LET tool_call == ExtractToolCalls(response)[1]
        keys == IF "parameters" \in tool_call.has THEN tool_call.keys ELSE {}
        o == ExecuteTool(loaded, tool_call.tool, tool_call.function, keys, body)
        invoke == [tool |-> tool_call.tool, fn |-> tool_call.function, keys |-> keys,
                   out |-> o]
        summary == Message("assistant",
                           IF o.kind = "raise" THEN Sorry(o.msg) ELSE <<o.value>>)
    IN  IF ExtractToolCalls(response) = <<>> \/ ~tool_call.isdict
           \/ ~({"tool", "function"} \subseteq tool_call.has)
        THEN Done(response, listed, <<call1>>, <<>>)
        ELSE Done(CallOllama(cl, outcome2), listed,
                  <<call1, ModelCall(Append(messages, summary), cl, outcome2)>>, <<invoke>>)

\* a _handle_tool_call that scans the second response too and follows a
\* directive it holds with another tool call and another model call
HandleToolCall_Rescan(messages, listed, response, call1, cl, loaded, body, outcome2) ==
    LET tool_calls == ExtractToolCalls(response)
        tool_call == tool_calls[1]
        keys == IF "parameters" \in tool_call.has THEN tool_call.keys ELSE {}
        o == ExecuteTool(loaded, tool_call.tool, tool_call.function, keys, body)
        invoke == [tool |-> tool_call.tool, fn |-> tool_call.function, keys |-> keys,
                   out |-> o]
        call2 == ModelCall(Append(messages, Message("assistant", <<o.value>>)), cl, outcome2)
    IN  IF tool_calls = <<>> \/ ~tool_call.isdict
           \/ ~({"tool", "function"} \subseteq tool_call.has)
        THEN Done(response, listed, <<call1>>, <<>>)
        ELSE IF o.kind = "raise" THEN Done(Sorry(o.msg), listed, <<call1>>, <<invoke>>)
        ELSE IF HasToolCall(call2.text)
        THEN Done(call2.text, listed, <<call1, call2, call2>>, <<invoke, invoke>>)
        ELSE Done(call2.text, listed, <<call1, call2>>, <<invoke>>)

\* OllamaChatClient._handle_tool_call
HandleToolCall(messages, listed, response, call1, cl, loaded, body, outcome2) ==
    LET tool_calls == ExtractToolCalls(response)
        tool_call == tool_calls[1]
        keys == IF "parameters" \in tool_call.has THEN tool_call.keys ELSE {}
        o == ExecuteTool(loaded, tool_call.tool, tool_call.function, keys, body)
        invoke == [tool |-> tool_call.tool, fn |-> tool_call.function, keys |-> keys,
                   out |-> o]
        tool_result_message ==
            Message("assistant",
                    <<"J'ai utilise l'outil ", tool_call.tool, ".", tool_call.function,
                      " et voici le resultat:\n", o.value,
                      "\n\nLaisse-moi te donner une reponse claire:">>)
        final_messages == Append(messages, tool_result_message)
    IN  IF tool_calls = <<>> THEN Done(response, listed, <<call1>>, <<>>)
        ELSE IF ~tool_call.isdict THEN Done(Sorry("TypeError"), listed, <<call1>>, <<>>)
        ELSE IF "tool" \notin tool_call.has
             THEN Done(Sorry("KeyError 'tool'"), listed, <<call1>>, <<>>)
        ELSE IF "function" \notin tool_call.has
             THEN Done(Sorry("KeyError 'function'"), listed, <<call1>>, <<>>)
        ELSE IF o.kind = "raise" THEN Done(Sorry(o.msg), listed, <<call1>>, <<invoke>>)
        ELSE Done(CallOllama(cl, outcome2), listed,
                  <<call1, ModelCall(final_messages, cl, outcome2)>>, <<invoke>>)

\* OllamaChatClient._process_chat; `listed` is the caller's list object after
\* the call (messages[0] is rewritten in place when it is a system message)
ProcessChat(messages, available_tools, cl, loaded, outcome1, body, outcome2) ==
    LET system_message == CreateSystemPrompt(available_tools)
        merge == messages # <<>> /\ messages[1].role = "system"
        full_messages ==
            IF available_tools = <<>> THEN messages
            ELSE IF merge
                 THEN [messages EXCEPT ![1].content =
                          system_message.content \o <<"\n\n">> \o messages[1].content]
            ELSE <<system_message>> \o messages
        listed == IF available_tools # <<>> /\ merge THEN full_messages ELSE messages
        response == CallOllama(cl, outcome1)
        call1 == ModelCall(full_messages, cl, outcome1)
    IN  IF available_tools # <<>> /\ HasToolCall(response)
        THEN HandleToolCall(full_messages, listed, response, call1, cl, loaded, body, outcome2)
        ELSE Done(response, listed, <<call1>>, <<>>)

\* the client the body of chat() runs with: `async with self` opens one when
\* self.client is None
ClientDuring(cl) == IF cl = "none" THEN "open" ELSE cl

\* self.client after chat(): __aexit__ closes the client it opened and leaves
\* the closed object in self.client
ClientAfter(cl) == IF cl = "none" THEN "closed" ELSE cl

-----------------------------------------------------------------------------
(* A caller that passes the registry's tools: chat(messages, get_all_tools()) *)

Plain == <<"Il fait beau a Paris.">>
Directive(doc) == <<"Je regarde.", StartTag, "\n", doc, "\n", EndTag>>

\* what the model may answer to the first request of a turn
Responses ==
    { Plain,
      Directive(DocRain), Directive(DocGhost), Directive(DocNoParams),
      Directive(DocNoFunction), Directive(DocArray), Directive(DocBroken),
      <<StartTag, DocRain>>,
      <<EndTag, DocRain, StartTag>>,
      Directive(DocBroken) \o Directive(DocRain),
      Directive(DocRain) \o Directive(DocGhost) }

\* what it may answer to the request that carries a tool result
FinalResponses == {Plain, Directive(DocRain)}

Question == Message("user", <<"Quel temps fait-il a Paris ?">>)

\* the message lists a caller passes
DirectMessages ==
    { <<Question>>, <<Message("system", <<"Reponds en francais.">>), Question>> }

NoDone == Done(<<>>, <<>>, <<>>, <<>>)

NoTurn ==
    [op |-> "none", via |-> "", conn |-> 0, asked |-> <<>>, tools |-> <<>>,
     response |-> <<>>, res |-> NoDone, held |-> <<>>]

ChatTurn(via, c, asked, tools, response, res) ==
    [op |-> "chat", via |-> via, conn |-> c, asked |-> asked, tools |-> tools,
     response |-> response, res |-> res, held |-> GetAllTools(loaded_tools)]

Outcomes(texts) == {Answer(t) : t \in texts} \cup {Failure(k) : k \in HttpErrors \cup OtherErrors}

\* await ollama_bot.chat(messages, tool_manager.get_all_tools())
DirectChat ==
    /\ \E messages \in DirectMessages, outcome1 \in Outcomes(Responses),
          body \in BodyOutcomes, outcome2 \in Outcomes(FinalResponses) :
          LET tools == GetAllTools(loaded_tools)
              cl == ClientDuring(client)
              res == ProcessChat(messages, tools, cl, loaded_tools, outcome1, body, outcome2)
          IN  turn' = ChatTurn("direct", 0, messages, tools, CallOllama(cl, outcome1), res)
    /\ client' = ClientAfter(client)
    /\ UNCHANGED <<regVars, scan, inflight, chat_history, conn, ws>>

-----------------------------------------------------------------------------
(* main.websocket_endpoint: one handler per connection *)

Conns == {1, 2}

\* the longest chat_history the model lets a connection build
MaxHistory == 4

\* an inbound text: not JSON, a JSON array, or a JSON object with some keys
Inbound(json, type, has, prompt, tool_server, function_name, keys) ==
    [json |-> json, type |-> type, has |-> has, prompt |-> prompt,
     tool_server |-> tool_server, function_name |-> function_name, keys |-> keys]

NoInbound == Inbound("", "", {}, "", "", "", {})

Reply(type, success, response, error, tool_server, function_name) ==
    [type |-> type, success |-> success, response |-> response, error |-> error,
     tools |-> <<>>, tool_server |-> tool_server, function_name |-> function_name]

NoWs == [op |-> "none", conn |-> 0, msg |-> NoInbound, replies |-> <<>>, alive |-> FALSE]

Handled(c, msg, replies, alive) ==
    [op |-> "message", conn |-> c, msg |-> msg, replies |-> replies, alive |-> alive]

\* await websocket.accept(); chat_history = []
WsConnect(c) ==
    /\ conn[c] = "closed"
    /\ conn' = [conn EXCEPT ![c] = "open"]
    /\ chat_history' = [chat_history EXCEPT ![c] = <<>>]
    /\ UNCHANGED <<regVars, scan, inflight, client, turn, ws>>

\* receive_text() raises: the client went away
WsDisconnect(c) ==
    /\ conn[c] = "open"
    /\ conn' = [conn EXCEPT ![c] = "closed"]
    /\ ws' = [op |-> "disconnect", conn |-> c, msg |-> NoInbound, replies |-> <<>>,
              alive |-> FALSE]
    /\ UNCHANGED <<regVars, scan, inflight, client, turn, chat_history>>

\* json.loads(data) raises, or message.get fails on a value that is no
\* object: the outer except logs the error and the handler returns
WsUnreadable(c) ==
    /\ conn[c] = "open"
    /\ \E json \in {"invalid", "array"} :
          ws' = Handled(c, Inbound(json, "", {}, "", "", "", {}), <<>>, FALSE)
    /\ conn' = [conn EXCEPT ![c] = "closed"]
    /\ UNCHANGED <<regVars, scan, inflight, client, turn, chat_history>>

\* the execute_tool branch
ExecutionReply(msg, o, serializable) ==
    IF "tool_server" \notin msg.has
    THEN Reply("execution_result", "false", <<>>, "KeyError 'tool_server'", "None",
               msg.function_name)
    ELSE IF o.kind = "raise"
    THEN Reply("execution_result", "false", <<>>, o.msg, msg.tool_server, msg.function_name)
    ELSE IF ~serializable
    THEN Reply("execution_result", "false", <<>>, "TypeError not JSON serializable",
               msg.tool_server, msg.function_name)
    ELSE Reply("execution_result", "true", <<o.value>>, "", msg.tool_server,
               msg.function_name)

\* the execute_tool messages a client sends: with or without tool_server,
\* for a loaded or an unknown tool, with parameters that bind or do not
ExecuteToolMessages ==
    { Inbound("object", "execute_tool", {"type", "function_name", "parameters"}, "", "",
              "will_it_rain", {"location"}) }
    \cup { Inbound("object", "execute_tool",
                   {"type", "tool_server", "function_name", "parameters"}, "", tool_server,
                   "will_it_rain", keys) :
              tool_server \in {"weather", "ghost"}, keys \in {{}, {"location"}} }

\* how the called function ends, and whether json.dumps accepts its result
Endings ==
    {<<body, TRUE>> : body \in BodyOutcomes} \cup {<<"return", FALSE>>}

WsExecuteTool(c) ==
    /\ conn[c] = "open"
    /\ \E msg \in ExecuteToolMessages, ending \in Endings :
          LET o == ExecuteTool(loaded_tools, msg.tool_server, msg.function_name, msg.keys,
                               ending[1])
          IN  ws' = Handled(c, msg, <<ExecutionReply(msg, o, ending[2])>>, TRUE)
    /\ UNCHANGED <<regVars, scan, inflight, client, turn, chat_history, conn>>

\* the list_tools branch: the reply has no success key
WsListTools(c) ==
    /\ conn[c] = "open"
    /\ ws' = Handled(c, Inbound("object", "list_tools", {"type"}, "", "", "", {}),
                     << [Reply("tools_list", "absent", <<>>, "", "", "")
                            EXCEPT !.tools = GetAllTools(loaded_tools)] >>,
                     TRUE)
    /\ UNCHANGED <<regVars, scan, inflight, client, turn, chat_history, conn>>

Prompt == "Quel temps fait-il a Paris ?"

\* what the model may answer to a chat message
WsResponses == {Plain, Directive(DocRain), <<StartTag, DocRain>>}

\* a handler that forgets the assistant turn
AppendAssistant_Dropped(history, response) == history

\* chat_history.append({"role": "assistant", "content": response})
AppendAssistant(history, response) == Append(history, Message("assistant", response))

\* a chat branch that keeps one chat_history for all connections
WsChat_SharedHistory(c) ==
    /\ conn[c] = "open"
    /\ Len(chat_history[c]) + 2 <= MaxHistory
    /\ \E outcome1 \in Outcomes(WsResponses) :
          LET asked == Append(chat_history[c], Message("user", <<Prompt>>))
              cl == ClientDuring(client)
              res == ProcessChat(asked, <<>>, cl, loaded_tools, outcome1, "return",
                                 Answer(Plain))
          IN  /\ turn' = ChatTurn("ws", c, asked, <<>>, CallOllama(cl, outcome1), res)
              /\ chat_history' = [d \in Conns |-> AppendAssistant(res.messages, res.reply)]
              /\ ws' = Handled(c, Inbound("object", "chat", {"type", "prompt"}, Prompt, "", "", {}),
                               <<Reply("chat_response", "true", res.reply, "", "", "")>>, TRUE)
    /\ client' = ClientAfter(client)
    /\ UNCHANGED <<regVars, scan, inflight, conn>>

\* the chat branch with a prompt: ollama_bot.chat(chat_history) gets no tools
WsChat(c) ==
    /\ conn[c] = "open"
    /\ Len(chat_history[c]) + 2 <= MaxHistory
    /\ \E outcome1 \in Outcomes(WsResponses) :
          LET asked == Append(chat_history[c], Message("user", <<Prompt>>))
              cl == ClientDuring(client)
              res == ProcessChat(asked, <<>>, cl, loaded_tools, outcome1, "return",
                                 Answer(Plain))
          IN  /\ turn' = ChatTurn("ws", c, asked, <<>>, CallOllama(cl, outcome1), res)
              /\ chat_history' = [chat_history EXCEPT ![c] = AppendAssistant(res.messages, res.reply)]
              /\ ws' = Handled(c, Inbound("object", "chat", {"type", "prompt"}, Prompt, "", "", {}),
                               <<Reply("chat_response", "true", res.reply, "", "", "")>>, TRUE)
    /\ client' = ClientAfter(client)
    /\ UNCHANGED <<regVars, scan, inflight, conn>>

\* an object no branch answers: a chat without prompt or with an empty one,
\* a reset, any other type, no type at all
Unanswered ==
    { Inbound("object", "chat", {"type"}, "", "", "", {}),
      Inbound("object", "chat", {"type", "prompt"}, "", "", "", {}),
      Inbound("object", "reset", {"type"}, "", "", "", {}),
      Inbound("object", "ping", {"type"}, "", "", "", {}),
      Inbound("object", "", {}, "", "", "", {}) }

WsUnanswered(c) ==
    /\ conn[c] = "open"
    /\ \E msg \in Unanswered : ws' = Handled(c, msg, <<>>, TRUE)
    /\ UNCHANGED <<regVars, scan, inflight, client, turn, chat_history, conn>>

-----------------------------------------------------------------------------
(* The event loop. uvicorn runs every handler as a coroutine of one thread: *)
(* a handler takes a step only when the loop resumes it, and the loop       *)
(* resumes nothing while the thread is inside a synchronous call.           *)
(* execute_tool awaits a coroutine function and calls any other function    *)
(* directly, on the loop's thread.                                          *)

NotCalling == [pc |-> "idle", tool |-> "", fn |-> "", keys |-> {}]

\* the execute_tool requests followed through the call: a coroutine
\* function, a plain function, and a tool that is not loaded
LoopCalls ==
    { <<"weather", "will_it_rain", {"location"}>>,
      <<"calc", "simple_greeting", {"name"}>>,
      <<"ghost", "will_it_rain", {"location"}>> }

CallMessage(tool, fn, keys) ==
    Inbound("object", "execute_tool",
            {"type", "tool_server", "function_name", "parameters"}, "", tool, fn, keys)

\* the thread is inside function(**parameters) of some handler
Blocked == \E c \in Conns : inflight[c].pc = "sync"

\* the loop can resume the handler of connection c at its receive_text()
Runs(c) ==
    /\ ~Blocked
    /\ conn[c] = "open"
    /\ inflight[c].pc = "idle"

\* the execute_tool branch up to the call of the function: a lookup that
\* fails is answered at once, a coroutine function is awaited, any other
\* function is entered on the loop's thread
LoopInvoke(c) ==
    /\ Runs(c)
    /\ \E call \in LoopCalls :
          IF Starts(loaded_tools, call[1], call[2], call[3])
          THEN /\ inflight' =
                    [inflight EXCEPT ![c] =
                        [pc |-> IF FunctionObject(Entry(loaded_tools, call[1]).module,
                                                  call[2]).isAsync
                                THEN "await" ELSE "sync",
                         tool |-> call[1], fn |-> call[2], keys |-> call[3]]]
               /\ UNCHANGED ws
          ELSE /\ ws' = Handled(c, CallMessage(call[1], call[2], call[3]),
                                <<ExecutionReply(CallMessage(call[1], call[2], call[3]),
                                                 ExecuteTool(loaded_tools, call[1], call[2],
                                                             call[3], ""),
                                                 TRUE)>>,
                                TRUE)
               /\ UNCHANGED inflight
    /\ UNCHANGED <<regVars, scan, client, turn, chat_history, conn>>

\* the function returns or raises and the handler sends its reply; an
\* awaited coroutine is resumed by the loop, a plain function is already
\* on the thread
LoopReturn(c) ==
    /\ \/ inflight[c].pc = "sync"
       \/ inflight[c].pc = "await" /\ ~Blocked
    /\ \E ending \in Endings :
          LET call == inflight[c]
              msg == CallMessage(call.tool, call.fn, call.keys)
          IN  ws' = Handled(c, msg,
                            <<ExecutionReply(msg,
                                             ExecuteTool(loaded_tools, call.tool, call.fn,
                                                         call.keys, ending[1]),
                                             ending[2])>>,
                            TRUE)
    /\ inflight' = [inflight EXCEPT ![c] = NotCalling]
    /\ UNCHANGED <<regVars, scan, client, turn, chat_history, conn>>

\* the other operations, each a step of a coroutine the loop resumes
LoopConnect(c) == ~Blocked /\ WsConnect(c)

LoopListTools(c) == Runs(c) /\ WsListTools(c)

\* one chat in a run
LoopChat(c) == Runs(c) /\ turn = NoTurn /\ WsChat(c)

LoopDescribe == ~Blocked /\ DescribeTool /\ UNCHANGED <<chatVars, scan, inflight>>

\* the load at startup
LoopLoad ==
    /\ ~Blocked
    /\ ~load_called
    /\ LoadAllTools
    /\ UNCHANGED <<chatVars, scan, inflight>>

-----------------------------------------------------------------------------

AllModules == [f \in Files |-> "module"]

Init ==
    /\ dir_exists \in BOOLEAN
    /\ fs \in Directories
    /\ dir_exists = FALSE => fs = NoFiles
    /\ loaded_tools = <<>>
    /\ sd = Idle
    /\ last = NoCall
    /\ prev_op = "none"
    /\ load_called = FALSE
    /\ client = "none"
    /\ turn = NoTurn
    /\ chat_history = [c \in Conns |-> <<>>]
    /\ conn = [c \in Conns |-> "closed"]
    /\ ws = NoWs
    /\ scan = NoScan
    /\ inflight = [c \in Conns |-> NotCalling]

\* the registry and its callers
Next ==
    \/ LoadAllTools /\ UNCHANGED <<chatVars, scan, inflight>>
    \/ ExecuteToolCall /\ UNCHANGED <<chatVars, scan, inflight>>
    \/ ShutdownAll /\ UNCHANGED <<chatVars, scan, inflight>>
    \/ ShutdownResume /\ UNCHANGED <<chatVars, scan, inflight>>

Spec == Init /\ [][Next]_vars

\* the registry behind the HTTP routes and its by-name operations
NextApi ==
    \/ LoadAllTools /\ UNCHANGED <<chatVars, scan, inflight>>
    \/ DescribeTool /\ UNCHANGED <<chatVars, scan, inflight>>
    \/ ReloadCall /\ UNCHANGED <<chatVars, scan, inflight>>

SpecApi == Init /\ [][NextApi]_vars

\* loading again after the files have changed
InitReload == Init /\ dir_exists /\ fs["mcp_demo"] = "absent"

NextReload ==
    \/ LoadAllTools /\ UNCHANGED <<chatVars, scan, inflight>>
    \/ EditFile /\ UNCHANGED <<chatVars, scan, inflight>>
    \/ ShutdownAll /\ UNCHANGED <<chatVars, scan, inflight>>

SpecReload == InitReload /\ [][NextReload]_vars

\* discovery on its own, over every module of the bound
InitScan == Init /\ ~dir_exists

NextScan == Discover

SpecScan == InitScan /\ [][NextScan]_vars

\* the orchestrator called with the registry's tools, on a directory of
\* loadable files
InitChat == Init /\ dir_exists /\ fs = AllModules

NextChat ==
    \/ LoadAllTools /\ UNCHANGED <<chatVars, scan, inflight>>
    \/ DirectChat

SpecChat == InitChat /\ [][NextChat]_vars

\* the WebSocket handlers of two connections
InitWs == Init /\ dir_exists /\ fs = [AllModules EXCEPT !["calc"] = "empty", !["mcp_demo"] = "absent"]

NextWs ==
    \/ LoadAllTools /\ UNCHANGED <<chatVars, scan, inflight>>
    \/ \E c \in Conns :
          \/ WsConnect(c)
          \/ WsDisconnect(c)
          \/ WsUnreadable(c)
          \/ WsExecuteTool(c)
          \/ WsListTools(c)
          \/ WsChat(c)
          \/ WsUnanswered(c)

SpecWs == InitWs /\ [][NextWs]_vars

\* two connections and the HTTP routes on the one event loop
InitLoop == Init /\ dir_exists /\ fs = [AllModules EXCEPT !["mcp_demo"] = "absent"]

NextLoop ==
    \/ LoopLoad
    \/ LoopDescribe
    \/ \E c \in Conns :
          \/ LoopConnect(c)
          \/ LoopInvoke(c)
          \/ LoopReturn(c)
          \/ LoopListTools(c)
          \/ LoopChat(c)

SpecLoop == InitLoop /\ [][NextLoop]_vars

-----------------------------------------------------------------------------
(* Properties of execute_tool *)

Executed == last.op = "execute_tool"

\* the call reached a loaded function object
ReachedFunction ==
    /\ Executed
    /\ last.tool \in Keys(loaded_tools)
    /\ last.fn \in Entry(loaded_tools, last.tool).function_objects

CalledFunction == FunctionObject(Entry(loaded_tools, last.tool).module, last.fn)

DeclaredNames(f) == Range(SignatureParameters(f))

IsParameterMismatch(o) ==
    o.kind = "raise" /\ o.exc = "ValueError" /\ o.msg = "Parametres incorrects"

\* C1 as claimed: every parameter mapping whose key set differs from the
\* declared parameter names (a missing key for a parameter with a default
\* value included) fails with ParameterMismatch and the callable is not started.
C1_AnyDifferenceRejected ==
    (ReachedFunction /\ last.keys # DeclaredNames(CalledFunction))
        => (IsParameterMismatch(last.out) /\ ~last.out.started)

\* C1 (amended): the call fails with ParameterMismatch, naming the expected
\* and the received keys, without starting the callable exactly when a
\* parameter that has no default value gets no key, or a key names no
\* parameter of a function that has no **kwargs; a mapping that only leaves
\* out parameters with default values is accepted and the callable starts.
C1_UnbindableRejected ==
    ReachedFunction =>
        LET f == CalledFunction
            missing == {p \in Range(f.params) : p \notin last.keys}
            extra == {k \in last.keys : k \notin Range(f.params)}
            unbindable == ~(missing \subseteq f.defaults) \/ (extra # {} /\ ~f.varkw)
        IN  /\ unbindable =>
                  /\ IsParameterMismatch(last.out)
                  /\ ~last.out.started
                  /\ last.out.expected = SignatureParameters(f)
                  /\ last.out.received = last.keys
            /\ ~unbindable => last.out.started

\* C1 witness: will_it_rain(location, days=1) called with an undeclared key
\* is rejected before its body starts
C1_Witness ==
    /\ ReachedFunction
    /\ last.fn = "will_it_rain"
    /\ last.keys = {"location", "name"}
    /\ IsParameterMismatch(last.out)
    /\ ~last.out.started

\* C2: execute_tool with a tool name that is no key of loaded_tools raises
\* the "Outil non trouve" ValueError and starts no callable, and no call on
\* a loaded tool ends with that error.
C2_UnknownToolOnly ==
    Executed =>
        /\ last.tool \notin Keys(loaded_tools) =>
              /\ last.out.kind = "raise"
              /\ last.out.exc = "ValueError"
              /\ last.out.msg = "Outil non trouve"
              /\ ~last.out.started
        /\ last.tool \in Keys(loaded_tools) => last.out.msg # "Outil non trouve"

\* C2 witness: an absent tool is asked for while other tools are loaded
C2_Witness ==
    /\ Executed
    /\ last.tool = "ghost"
    /\ Len(loaded_tools) >= 2
    /\ last.out.msg = "Outil non trouve"

\* C3 as claimed: an exception of any type raised inside the callable's body
\* (a TypeError included) is reported as the tool's own failure with its
\* message, not as a parameter mismatch, and the registry is as before.
C3_BodyFailureIsExecutionError ==
    (Executed /\ last.out.started /\ last.body # "return") =>
        /\ last.out.kind = "raise"
        /\ last.out.exc = last.body
        /\ last.out.msg = "body message"
        /\ ~IsParameterMismatch(last.out)
        /\ KeyNames(loaded_tools) = last.before

-----------------------------------------------------------------------------
(* Properties of loading, listing and describing *)

Loaded == last.op = "load_all_tools"

\* <stem>.py is a valid tool source unit: it imports and a discovery rule
\* selects at least one of its functions
Valid(f) == fs[f] = "module" /\ Discovered[f] # {}

\* C11: load_all_tools on an empty registry, for a directory that is missing
\* or holds no valid tool source unit, leaves is_ready() false and
\* get_all_tools() empty.
C11_NothingValidNotReady ==
    (Loaded /\ last.before = <<>> /\ (~dir_exists \/ \A f \in Files : ~Valid(f))) =>
        /\ ~IsReady(loaded_tools)
        /\ GetAllTools(loaded_tools) = <<>>

\* C11 witness: a directory whose four files fail in four ways
C11_Witness ==
    /\ Loaded
    /\ dir_exists
    /\ fs["weather"] = "runtime_error"
    /\ fs["calc"] = "empty"
    /\ fs["mcp_demo"] = "syntax_error"
    /\ fs["scratch"] = "module"
    /\ loaded_tools = <<>>

\* get_all_tools()[t]
Listed(t) ==
    LET all == GetAllTools(loaded_tools)
    IN  Range(all[CHOOSE i \in 1..Len(all) : all[i].tool = t].functions)

\* C12: for every loaded tool t, the keys of get_tool_info(t)'s
\* functions_info are the function names of get_all_tools()[t].
C12_DescribeMatchesList ==
    \A t \in Keys(loaded_tools) :
        DOMAIN GetToolInfo(loaded_tools, t).functions_info = Listed(t)

\* C12 witness: three tools are loaded, with synchronous and asynchronous
\* functions
C12_Witness ==
    /\ Keys(loaded_tools) = {"weather", "calc", "mcp_demo"}
    /\ Listed("weather") = {"get_current_weather", "will_it_rain"}
    /\ Listed("mcp_demo") = {"lookup"}

RECURSIVE FunctionCount(_)
FunctionCount(tools) ==
    IF tools = {} THEN 0
    ELSE LET t == CHOOSE x \in tools : TRUE
         IN  Cardinality(Entry(loaded_tools, t).functions) + FunctionCount(tools \ {t})

\* C13: in every state get_stats() reports the number of modules in the
\* registry, the sum of their function counts and the registry's keys, and
\* is_ready() is true exactly when tools_loaded is at least 1.
C13_StatsMatchRegistry ==
    LET stats == GetStats(loaded_tools)
    IN  /\ stats.tools_loaded = Cardinality(Keys(loaded_tools))
        /\ stats.total_functions = FunctionCount(Keys(loaded_tools))
        /\ Range(stats.tool_names) = Keys(loaded_tools)
        /\ Len(stats.tool_names) = Cardinality(Keys(loaded_tools))
        /\ IsReady(loaded_tools) <=> stats.tools_loaded >= 1

\* C13 witness: load_all_tools has run again on a registry that held two
\* tools or more
C13_Witness ==
    /\ Loaded
    /\ Len(last.before) >= 2
    /\ GetStats(loaded_tools).tools_loaded = 3
    /\ GetStats(loaded_tools).total_functions = 5

\* C14 as claimed: the registry has a reload operation addressed by tool
\* name; it fails with the unknown-tool error for a tool that is not loaded
\* and otherwise returns with the tool's function names as they were.
C14_ReloadByName ==
    last.op = "reload" =>
        IF last.tool \notin Range(last.before)
        THEN last.out = UnknownTool
        ELSE /\ last.out.kind = "return"
             /\ KeyNames(loaded_tools) = last.before

\* C15: after load_all_tools returns, every file that is a valid tool source
\* unit is in the registry, whatever the other files are and in whatever
\* order the directory lists them.
C15_FailuresDoNotAbortBatch ==
    Loaded => \A f \in Files : Valid(f) => f \in Keys(loaded_tools)

\* C15 witness: two files loaded from a directory in which two others failed
C15_Witness ==
    /\ Loaded
    /\ last.before = <<>>
    /\ fs["weather"] \in {"import_error", "runtime_error"}
    /\ fs["scratch"] = "module"
    /\ Keys(loaded_tools) = {"calc", "mcp_demo"}

\* C18 as claimed: GET /tools/{tool_name} returns the descriptor set for a
\* loaded tool and not-found for any other, and never ends in an unhandled
\* error.
C18_DescribeTwoOutcomes ==
    last.op = "get_tool_details" =>
        IF last.tool \in Range(last.before)
        THEN last.out.kind = "return"
        ELSE last.out.exc = "HTTPException"

-----------------------------------------------------------------------------
(* Properties of callable discovery *)

NamesOf(module) == {f.name : f \in module}

\* the four rules, name by name
Rule1(module) == {f.name : f \in {g \in module : g.tagged}}
Rule2(module) == NamesOf(module) \cap {"Run_Tool"}
Rule3(module) == NamesOf(module) \cap {"get_current_weather", "will_it_rain"}
Rule4(module) ==
    NamesOf(module) \cap {"get_current_weather", "will_it_rain", "search_locations",
                          "simple_greeting", "cleanup", "lookup", "Run_Tool"}

\* C16: discovery returns the selection of the first of the four rules that
\* selects anything, and nothing only when no rule selects anything.
C16_FirstMatchingRule ==
    scan.op = "find" =>
        scan.found =
            IF Rule1(scan.module) # {} THEN Rule1(scan.module)
            ELSE IF Rule2(scan.module) # {} THEN Rule2(scan.module)
            ELSE IF Rule3(scan.module) # {} THEN Rule3(scan.module)
            ELSE Rule4(scan.module)

\* C16 witness: a marked private function is selected, and the functions
\* that only a later rule would select are left out
C16_Witness ==
    /\ scan.op = "find"
    /\ NamesOf(scan.module) = {"_helper", "Run_Tool", "will_it_rain"}
    /\ scan.found = {"_helper"}

-----------------------------------------------------------------------------
(* Properties of the orchestrator and of the WebSocket handler *)

ListedTools == {turn.tools[i].tool : i \in 1..Len(turn.tools)}

\* the turn's first model call was answered with a directive that parses,
\* has its tool and function keys and names a tool the registry does not hold
UnknownToolDirective ==
    /\ turn.op = "chat"
    /\ turn.tools # <<>>
    /\ ~turn.res.calls[1].failed
    /\ HasToolCall(turn.response)
    /\ ExtractToolCalls(turn.response) # <<>>
    /\ LET tool_call == ExtractToolCalls(turn.response)[1]
       IN  /\ tool_call.isdict
           /\ {"tool", "function"} \subseteq tool_call.has
           /\ tool_call.tool \notin ListedTools

ChatHandled ==
    /\ ws.op = "message"
    /\ ws.msg.type = "chat"
    /\ ws.msg.prompt # ""
    /\ turn.op = "chat"
    /\ turn.via = "ws"
    /\ turn.conn = ws.conn

\* C5: when the model's response does not hold both delimiters, the
\* response is appended unchanged as the assistant turn and sent as the
\* reply, one model call is made in the turn and the registry is not asked.
C5_PlainResponseIsTheTurn ==
    (ChatHandled /\ ~HasToolCall(turn.response)) =>
        /\ chat_history[ws.conn] = Append(turn.asked, Message("assistant", turn.response))
        /\ Len(ws.replies) = 1
        /\ ws.replies[1].response = turn.response
        /\ Len(turn.res.calls) = 1
        /\ turn.res.invokes = <<>>

\* C5 witness: a response with the start delimiter only, while the other
\* connection is open and a tool is loaded
C5_Witness ==
    /\ ChatHandled
    /\ turn.response = <<StartTag, DocRain>>
    /\ loaded_tools # <<>>
    /\ \A c \in Conns : conn[c] = "open"
    /\ chat_history[ws.conn][2].content = <<StartTag, DocRain>>

\* C6 as claimed: when the backend call fails, the client gets a
\* chat_response with success false and no assistant turn is appended to
\* the history.
C6_BackendFailureIsFailedTurn ==
    (ChatHandled /\ turn.res.calls[1].failed) =>
        /\ Len(ws.replies) = 1
        /\ ws.replies[1].type = "chat_response"
        /\ ws.replies[1].success = "false"
        /\ chat_history[ws.conn] = turn.asked

\* C7 as claimed: every inbound message that is a JSON object (a chat with
\* or without prompt, execute_tool, list_tools, reset, any other type) is
\* answered by exactly one reply.
C7_ExactlyOneReply ==
    (ws.op = "message" /\ ws.msg.json = "object") => Len(ws.replies) = 1

\* C8 as claimed: for every inbound message, text that is no valid JSON
\* included, the handler sends a reply carrying a success flag and stays in
\* its receive loop.
C8_RepliesAndStaysOpen ==
    ws.op = "message" =>
        /\ ws.alive
        /\ conn[ws.conn] = "open"
        /\ ws.replies # <<>>
        /\ \A i \in 1..Len(ws.replies) : ws.replies[i].success \in {"true", "false"}

\* C17 as claimed: a reset message is answered with a reset_ok reply and
\* leaves the connection's history empty.
C17_ResetClearsHistory ==
    (ws.op = "message" /\ ws.msg.type = "reset") =>
        /\ Len(ws.replies) = 1
        /\ ws.replies[1].type = "reset_ok"
        /\ chat_history[ws.conn] = <<>>

\* the turn's first response was scanned for directives
Scanned == turn.op = "chat" /\ turn.tools # <<>> /\ HasToolCall(turn.response)

\* the contents of the delimiter pairs of the first response, in order
Matches == FindAll(turn.response, 1)

IsDirective(doc) == doc.valid /\ doc.isdict /\ {"tool", "function"} \subseteq doc.has

Invoked(doc) ==
    /\ Len(turn.res.invokes) = 1
    /\ turn.res.invokes[1].tool = doc.tool
    /\ turn.res.invokes[1].fn = doc.function

C20_OneToolHop ==
    turn.op = "chat" =>
        /\ Len(turn.res.calls) <= 2
        /\ Len(turn.res.invokes) <= 1
        /\ Len(turn.res.calls) = 2 =>
              /\ Len(turn.res.invokes) = 1
              /\ turn.res.reply = turn.res.calls[2].text

\* C20 witness: the second response holds a well-formed directive for a
\* loaded tool and is the reply
C20_Witness ==
    /\ turn.op = "chat"
    /\ Len(turn.res.calls) = 2
    /\ ~turn.res.calls[2].failed
    /\ turn.res.reply = Directive(DocRain)
    /\ IsDirective(ExtractToolCalls(turn.res.reply)[1])
    /\ "weather" \in ListedTools

\* the text of a message names every tool of the list and its functions
Enumerates(content, tools) ==
    \A i \in 1..Len(tools) :
        /\ tools[i].tool \in Range(content)
        /\ Range(tools[i].functions) \subseteq Range(content)

\* C21 as claimed: a chat message handled while the registry holds a tool is
\* sent to the model behind a system turn that names every loaded tool and
\* its functions, and a directive in the response is dispatched to the
\* registry before the reply is sent.
C21_ChatOffersTools ==
    (ChatHandled /\ turn.held # <<>>) =>
        /\ turn.res.calls[1].sent[1].role = "system"
        /\ Enumerates(turn.res.calls[1].sent[1].content, turn.held)
        /\ (~turn.res.calls[1].failed /\ turn.response = Directive(DocRain)) =>
              /\ Len(turn.res.invokes) = 1
              /\ ws.replies[1].response # turn.response

\* what the handlers other than c's, and the HTTP routes, can do next
OtherSteps(c) ==
    \/ LoopDescribe
    \/ \E d \in Conns \ {c} : LoopListTools(d) \/ LoopInvoke(d) \/ LoopChat(d)

\* C22 as claimed: while a connection's handler is inside a synchronous tool
\* function, another open connection can still list the tools, invoke a
\* tool or chat, and a describe request can still be answered.
C22_SyncCallLeavesOthersRunning ==
    \A c \in Conns :
        (/\ inflight[c].pc = "sync"
         /\ \E d \in Conns \ {c} : conn[d] = "open" /\ inflight[d].pc = "idle")
            => ENABLED OtherSteps(c)

\* C23 as claimed: while shutdown_all is in progress, suspended at an
\* asynchronous cleanup hook, no execute_tool call looks a tool up in the
\* registry, so that no tool function is started on a module whose cleanup
\* hook has run.
C23_ShutdownExcludesInvoke ==
    [][sd.pc = "awaiting" =>
          ~(last'.op = "execute_tool" /\ <<last, prev_op>>' # <<last, prev_op>>)]_vars

\* C24 as claimed: a chat call leaves every turn that was in the caller's
\* message list where it was and as it was, also when the list starts with
\* a system turn and the tool instruction is merged.
C24_HistoryAppendOnly ==
    turn.op = "chat" =>
        /\ Len(turn.res.messages) >= Len(turn.asked)
        /\ \A i \in 1..Len(turn.asked) : turn.res.messages[i] = turn.asked[i]

\* a step changes the history of connection c
Changes(c) == chat_history'[c] # chat_history[c]

\* C25: a step changes a connection's history only when it is that
\* connection's own chat message, which sends the model that history with
\* the new user turn and nothing else and appends the reply to it, or when
\* the connection is accepted anew; the other connection's history stays as
\* it is.
C25_HistoriesPartitioned ==
    [][\A c \in Conns :
          Changes(c) =>
              \/ /\ conn[c] = "closed"
                 /\ chat_history'[c] = <<>>
              \/ /\ ws'.conn = c
                 /\ ws'.msg.type = "chat"
                 /\ turn'.conn = c
                 /\ turn'.res.calls[1].sent =
                        Append(chat_history[c], Message("user", <<ws'.msg.prompt>>))
                 /\ chat_history'[c] =
                        Append(turn'.res.calls[1].sent, Message("assistant", turn'.res.reply))
                 /\ \A d \in Conns \ {c} : ~Changes(d)]_vars

\* C25 witness: both connections are open with an exchange each, and the
\* two histories differ
C25_Witness ==
    /\ ChatHandled
    /\ \A c \in Conns : conn[c] = "open" /\ Len(chat_history[c]) = 2
    /\ chat_history[1] # chat_history[2]

\* C26: every module in the registry has at least one function, the names
\* of its callable handles are the names of its descriptors, and a file in
\* which no discovery rule selects anything is not in the registry.
C26_EntriesHaveFunctions ==
    /\ \A i \in 1..Len(loaded_tools) :
          /\ loaded_tools[i].functions # {}
          /\ loaded_tools[i].function_objects = loaded_tools[i].functions
    /\ \A f \in Files : Discovered[f] = {} => f \notin Keys(loaded_tools)

\* C26 witness: a load has gone through a directory that holds such a file
\* next to three that load
C26_Witness ==
    /\ Loaded
    /\ fs["scratch"] = "module"
    /\ Discovered["scratch"] = {}
    /\ Len(loaded_tools) = 3

\* C27 as claimed: every model call of every chat call is sent on an open
\* HTTP client.
C27_CallsOnOpenClient ==
    turn.op = "chat" =>
        \A i \in 1..Len(turn.res.calls) : turn.res.calls[i].client = "open"

\* <stem>.py as it is now imports and has a function that discovery selects
FileLoads(f) ==
    /\ fs[f] \in {"module", "module_edited", "module_bare"}
    /\ Discovered[ModuleId(f, fs[f])] # {}

\* the entry a successful load of <stem>.py writes
FreshEntry(f) ==
    [tool_name |-> f,
     module |-> ModuleId(f, fs[f]),
     functions |-> Discovered[ModuleId(f, fs[f])],
     function_objects |-> Discovered[ModuleId(f, fs[f])]]

LoadStep ==
    /\ last'.op = "load_all_tools"
    /\ <<last, prev_op, loaded_tools, load_called>>' # <<last, prev_op, loaded_tools, load_called>>

\* C28: a load_all_tools call keeps every key of the registry in its place;
\* the entry of a file that no longer loads stays exactly as it was, the
\* entry of a file that loads is the one built from the file as it is now;
\* a key leaves the registry only when shutdown_all clears it.
C28_LoadNeverRemoves ==
    [][/\ LoadStep =>
            /\ Len(loaded_tools') >= Len(loaded_tools)
            /\ \A i \in 1..Len(loaded_tools) :
                  loaded_tools'[i].tool_name = loaded_tools[i].tool_name
            /\ \A t \in Keys(loaded_tools) :
                  /\ t \in Keys(loaded_tools')
                  /\ Entry(loaded_tools', t) =
                        IF FileLoads(t) THEN FreshEntry(t) ELSE Entry(loaded_tools, t)
       /\ (\E t \in Keys(loaded_tools) : t \notin Keys(loaded_tools')) =>
            /\ last'.op = "shutdown_all"
            /\ loaded_tools' = <<>>]_vars

\* C28 witness: the last load found calc.py blank and weather.py failing to
\* import, and both entries are in the registry, calc's built from the
\* edited file of an earlier load
C28_Witness ==
    /\ Loaded
    /\ {"calc", "weather"} \subseteq Range(last.before)
    /\ fs["calc"] = "empty"
    /\ fs["weather"] = "import_error"
    /\ Keys(loaded_tools) = {"calc", "weather"}
    /\ Entry(loaded_tools, "calc").module = "calc_edited"

-----------------------------------------------------------------------------
(* Properties of shutdown_all *)

ShutDown == last.op = "shutdown_all"

\* C9: shutdown_all called before any load_all_tools, or directly after
\* another shutdown_all, raises nothing, runs no cleanup hook (it visits no
\* module) and leaves the registry empty.
C9_ShutdownOnEmptyIsNoOp ==
    (ShutDown /\ (~load_called \/ prev_op = "shutdown_all")) =>
        /\ last.before = <<>>
        /\ last.hooks = <<>>
        /\ ~last.raised
        /\ loaded_tools = <<>>
        /\ sd = Idle

\* C9 witness: a second shutdown_all directly after a first one, on a
\* registry that had been loaded
C9_Witness ==
    /\ ShutDown
    /\ prev_op = "shutdown_all"
    /\ load_called
    /\ \E f \in Files : fs[f] = "module" /\ Discovered[f] # {}

HookKind(module) ==
    IF ~HasCleanup(module) THEN "none"
    ELSE IF FunctionObject(module, "cleanup").isAsync THEN "async" ELSE "sync"

\* C10: when shutdown_all returns it has visited every module that was
\* loaded, in order, has run the cleanup hook of exactly those that declare
\* one (awaiting the asynchronous ones), whichever hooks raised, and the
\* registry is empty.
C10_SweepCompletes ==
    ShutDown =>
        /\ [i \in 1..Len(last.hooks) |-> last.hooks[i].tool] = last.before
        /\ \A i \in 1..Len(last.hooks) :
              last.hooks[i].hook = HookKind(last.hooks[i].tool)
        /\ loaded_tools = <<>>

\* C10 witness: a synchronous and an asynchronous hook both raised, the
\* first of them before the last module was visited
C10_Witness ==
    /\ ShutDown
    /\ Len(last.hooks) = 3
    /\ last.hooks[1].result = "raised"
    /\ \E i, j \in 1..3 :
          /\ last.hooks[i].hook = "sync" /\ last.hooks[i].result = "raised"
          /\ last.hooks[j].hook = "async" /\ last.hooks[j].result = "raised"

====
